---- MODULE Spec2Model ----
(***************************************************************************)
(* The gap buffer of src/buffer.rs: a byte vector and two half-open byte   *)
(* ranges, the Left string and the Right string, with the gap between.     *)
(* Bytes are numbers; strings are sequences of bytes; the grapheme         *)
(* iterator of unicode_segmentation is modelled by the UAX #29 rules on    *)
(* the code points the model's alphabet can encode.                        *)
(***************************************************************************)
EXTENDS Integers, Sequences, FiniteSets, TLC

VARIABLES
    buffer,              \* Buffer.buffer: Vec<u8>, a sequence of bytes
    left_string_range,   \* Buffer.left_string_range: [start, end)
    right_string_range,  \* Buffer.right_string_range: [start, end)
    debug_assertions,    \* the build: TRUE = debug (overflow checks, debug_assert!)
    status,              \* "ok", "panic" once a call has panicked, "undefined"
                         \* once a call has had undefined behaviour
    last_call,           \* history: the call that produced this state
    file                 \* what the file system holds at FileViewComponent.file_path

vars == <<buffer, left_string_range, right_string_range, debug_assertions,
          status, last_call, file>>

----------------------------------------------------------------------------
(* Bounds of the model. *)

\* largest capacity passed to with_initial_capacity
MaxInitCapacity == 3
\* growth is only followed while the new capacity stays within this
MaxCapacity == 4
\* longest text (in bytes) passed to insert_at_cursor
MaxTextLen == 3
\* largest count / |offset| passed to the delete and move operations
MaxCount == 3

\* the capacity a set_content may grow the vector to: "<binary file>" needs 16
MaxContentCapacity == 16

\* the entries of a folder shown by set_content
MaxChildren == 2

\* the length of a text file opened by the editor
MaxFileLen == 1

----------------------------------------------------------------------------
(* Bytes and code points of the alphabet. *)

\* the fill byte of vec![0; capacity] (U+0000, a control character)
NUL == 0
\* '\n'
NEWLINE == 10
\* 'a', an ordinary one-byte character
LETTER == 97
\* first and second byte of U+0310 COMBINING CANDRABINDU
MARK_LEAD == 204
MARK_CONT == 144
\* the code point the two bytes decode to
MARK_CP == 784

\* usize::MAX, what 0 - 1 wraps to without overflow checks.  Only its order
\* against lengths is used; the model takes the largest integer TLC has.
USIZE_MAX == 2147483647

Range(s, e) == [start |-> s, end |-> e]

\* Range<usize>::len(): 0 for an empty or inverted range
RangeLen(r) == IF r.end >= r.start THEN r.end - r.start ELSE 0

\* &buf[r] for a range inside the vector
Slice(buf, r) == SubSeq(buf, r.start + 1, r.end)

Zeros(n) == [i \in 1..n |-> NUL]

----------------------------------------------------------------------------
(* UTF-8 over the alphabet. *)

\* every lead byte is followed by its continuation byte and every
\* continuation byte follows a lead byte
ValidUtf8(s) ==
    \A i \in 1..Len(s) :
        /\ s[i] < 128 \/ s[i] \in {MARK_LEAD, MARK_CONT}
        /\ s[i] = MARK_LEAD => (i < Len(s) /\ s[i + 1] = MARK_CONT)
        /\ s[i] = MARK_CONT => (i > 1 /\ s[i - 1] = MARK_LEAD)

\* str::char_indices(): the (byte index, code point) pairs of a valid string
RECURSIVE CharIndicesFrom(_, _)
CharIndicesFrom(s, i) ==
    IF i >= Len(s) THEN <<>>
    ELSE IF s[i + 1] = MARK_LEAD
         THEN <<[index |-> i, char |-> MARK_CP] >> \o CharIndicesFrom(s, i + 2)
         ELSE <<[index |-> i, char |-> s[i + 1]] >> \o CharIndicesFrom(s, i + 1)

char_indices(s) == CharIndicesFrom(s, 0)

\* Grapheme_Cluster_Break property of a code point
GraphemeCat(c) ==
    IF c \in {NUL, NEWLINE} THEN "Control"
    ELSE IF c = MARK_CP THEN "Extend"
    ELSE "Any"

\* UAX #29: is there a cluster boundary between code point a and the next, b
\* GB4/GB5 break after and before controls, GB9 no break before Extend,
\* GB999 break everywhere else
BreakBetween(a, b) ==
    IF GraphemeCat(a) = "Control" \/ GraphemeCat(b) = "Control" THEN TRUE
    ELSE IF GraphemeCat(b) = "Extend" THEN FALSE
    ELSE TRUE

\* grapheme_indices(true), reduced to the start index of each cluster
grapheme_indices(s) ==
    LET cs == char_indices(s)
        keep == {k \in 1..Len(cs) : k = 1 \/ BreakBetween(cs[k - 1].char, cs[k].char)}
        RECURSIVE Pick(_)
        Pick(k) ==
            IF k > Len(cs) THEN <<>>
            ELSE IF k \in keep THEN <<cs[k].index>> \o Pick(k + 1)
            ELSE Pick(k + 1)
    IN  Pick(1)

\* Option<usize>
None == [some |-> FALSE, index |-> 0]
Some(i) == [some |-> TRUE, index |-> i]

\* Iterator::nth(n) on a fresh iterator over the sequence
nth(seq, n) == IF n < Len(seq) THEN Some(seq[n + 1]) ELSE None

\* DoubleEndedIterator::nth_back(n) on a fresh iterator over the sequence
nth_back(seq, n) == IF n < Len(seq) THEN Some(seq[Len(seq) - n]) ELSE None

\* graphemes(true): the clusters of a valid string, as byte strings
graphemes(s) ==
    LET gi == grapheme_indices(s)
    IN  [k \in 1..Len(gi) |->
            SubSeq(s, gi[k] + 1, IF k < Len(gi) THEN gi[k + 1] ELSE Len(s))]

----------------------------------------------------------------------------
(* The texts and counts the operations are called with. *)

RECURSIVE BytesUpTo(_)
BytesUpTo(n) ==
    IF n = 0 THEN {<<>>}
    ELSE LET shorter == BytesUpTo(n - 1)
         IN  shorter \cup
             {Append(t, b) : t \in {u \in shorter : Len(u) = n - 1},
                            b \in {NEWLINE, LETTER, MARK_LEAD, MARK_CONT}}

\* the valid UTF-8 strings of at most MaxTextLen bytes
Texts == {t \in BytesUpTo(MaxTextLen) : ValidUtf8(t)}

Counts == 0..MaxCount

Offsets == (0 - MaxCount)..MaxCount

----------------------------------------------------------------------------
(* The Buffer value and the outcome of a call on it. *)

\* struct Buffer
Buffer(buf, left, right) ==
    [buffer |-> buf, left_string_range |-> left, right_string_range |-> right]

\* the Buffer held in the variables
Self == Buffer(buffer, left_string_range, right_string_range)

\* a call either returns, leaving the Buffer as given, or panics
Ok(self) == [panicked |-> FALSE, undefined |-> FALSE, self |-> self]
Panicked(self) == [panicked |-> TRUE, undefined |-> FALSE, self |-> self]

\* the outcomes of a call whose behaviour is undefined: any of the given ones
Undefined(outcomes) == {[r EXCEPT !.undefined = TRUE] : r \in outcomes}

\* a - b on usize: panics with overflow checks (debug), wraps without
checked_sub(a, b, dbg) ==
    IF a >= b THEN [panicked |-> FALSE, value |-> a - b]
    ELSE IF dbg THEN [panicked |-> TRUE, value |-> 0]
    ELSE [panicked |-> FALSE, value |-> USIZE_MAX - (b - a) + 1]

\* usize::next_power_of_two
RECURSIVE PowerOfTwoFrom(_, _)
PowerOfTwoFrom(n, p) == IF p >= n THEN p ELSE PowerOfTwoFrom(n, 2 * p)

next_power_of_two(n) == PowerOfTwoFrom(n, 1)

\* Vec::resize(new_len, 0)
resize(buf, new_len) ==
    IF new_len >= Len(buf) THEN buf \o Zeros(new_len - Len(buf))
    ELSE SubSeq(buf, 1, new_len)

\* <[u8]>::copy_within(src, dest) panics when src is inverted or out of
\* bounds, or when the destination does not fit
copy_within_panics(buf, src, dest) ==
    \/ src.start > src.end
    \/ src.end > Len(buf)
    \/ dest > Len(buf) - (src.end - src.start)

\* copy_within as a byte-by-byte copy from the lowest index up: a source byte
\* is read after the destination bytes below it were written
RECURSIVE ForwardCopy(_, _, _, _)
ForwardCopy(buf, from, to, count) ==
    IF count = 0 THEN buf
    ELSE ForwardCopy([buf EXCEPT ![to + 1] = buf[from + 1]],
                     from + 1, to + 1, count - 1)

copy_within_forward(buf, src, dest) ==
    ForwardCopy(buf, src.start, dest, src.end - src.start)

\* copy_within as a byte-by-byte copy from the highest index down: a source
\* byte is read after the destination bytes above it were written
RECURSIVE BackwardCopy(_, _, _, _)
BackwardCopy(buf, from, to, count) ==
    IF count = 0 THEN buf
    ELSE BackwardCopy([buf EXCEPT ![to + count] = buf[from + count]],
                      from, to, count - 1)

copy_within_backward(buf, src, dest) ==
    BackwardCopy(buf, src.start, dest, src.end - src.start)

\* <[u8]>::copy_within(src, dest): a memmove, every source byte is read
\* before any destination byte is written
copy_within(buf, src, dest) ==
    [i \in 1..Len(buf) |->
        IF i > dest /\ i <= dest + (src.end - src.start)
        THEN buf[src.start + (i - dest)]
        ELSE buf[i]]

\* <[u8]>::copy_from_slice into buf[at .. at + Len(bytes)]
copy_from_slice(buf, at, bytes) ==
    [i \in 1..Len(buf) |->
        IF i > at /\ i <= at + Len(bytes) THEN bytes[i - at] ELSE buf[i]]

----------------------------------------------------------------------------
(* impl Buffer *)

\* with_initial_capacity that starts the Right range at the front of the vector
with_initial_capacity_right_at_zero(capacity) ==
    Buffer(Zeros(capacity), Range(0, 0), Range(0, 0))

with_initial_capacity(capacity) ==
    Buffer(Zeros(capacity), Range(0, 0), Range(capacity, capacity))

DEFAULT_INITIAL_CAPACITY == 10 * 1024

new == with_initial_capacity(DEFAULT_INITIAL_CAPACITY)

\* get(): the Left and the Right string
get(self) ==
    <<Slice(self.buffer, self.left_string_range),
      Slice(self.buffer, self.right_string_range)>>

\* from_utf8_unchecked on bytes that are not UTF-8 is undefined behaviour:
\* what the iterators over such a string return is not determined
ViewsAreUtf8(self) == ValidUtf8(get(self)[1]) /\ ValidUtf8(get(self)[2])

gap_size(self) == self.right_string_range.start - self.left_string_range.end

\* grow that leaves the Right string where it was in the vector
grow_without_copy(self, target_gap_size) ==
    LET new_length ==
            next_power_of_two(Len(self.buffer) + (target_gap_size - gap_size(self)))
        num_right_bytes == RangeLen(self.right_string_range)
    IN  Buffer(resize(self.buffer, new_length), self.left_string_range,
               Range(new_length - num_right_bytes, new_length))

\* grow that doubles the capacity whatever the text needs
grow_doubling(self, target_gap_size) ==
    LET new_length == 2 * Len(self.buffer)
        resized == resize(self.buffer, new_length)
        num_right_bytes == RangeLen(self.right_string_range)
        new_right == Range(new_length - num_right_bytes, new_length)
    IN  Buffer(copy_within(resized, self.right_string_range, new_right.start),
               self.left_string_range, new_right)

\* grow to exactly the bytes needed, without rounding up to a power of two
grow_exact(self, target_gap_size) ==
    LET new_length == Len(self.buffer) + (target_gap_size - gap_size(self))
        resized == resize(self.buffer, new_length)
        num_right_bytes == RangeLen(self.right_string_range)
        new_right == Range(new_length - num_right_bytes, new_length)
    IN  Buffer(copy_within(resized, self.right_string_range, new_right.start),
               self.left_string_range, new_right)

\* grow that does not recompute the Right range for the new length
grow_keeps_right_range(self, target_gap_size) ==
    LET new_length ==
            next_power_of_two(Len(self.buffer) + (target_gap_size - gap_size(self)))
    IN  Buffer(resize(self.buffer, new_length), self.left_string_range,
               self.right_string_range)

\* grow that copies with source and destination exchanged
grow_copy_reversed(self, target_gap_size) ==
    LET new_length ==
            next_power_of_two(Len(self.buffer) + (target_gap_size - gap_size(self)))
        resized == resize(self.buffer, new_length)
        num_right_bytes == RangeLen(self.right_string_range)
        new_right == Range(new_length - num_right_bytes, new_length)
    IN  Buffer(copy_within(resized, new_right, self.right_string_range.start),
               self.left_string_range, new_right)

grow(self, target_gap_size) ==
    LET new_length ==
            next_power_of_two(Len(self.buffer) + (target_gap_size - gap_size(self)))
        resized == resize(self.buffer, new_length)
        num_right_bytes == RangeLen(self.right_string_range)
        original_right_string_range == self.right_string_range
        new_right == Range(new_length - num_right_bytes, new_length)
    IN  Buffer(copy_within(resized, original_right_string_range, new_right.start),
               self.left_string_range, new_right)

\* insert_at_cursor that grows only when the text does not fit between the
\* cursor and the end of the vector, the Right string included
insert_at_cursor_ignoring_right(self, characters) ==
    LET num_bytes == Len(characters)
        grown == IF num_bytes > Len(self.buffer) - self.left_string_range.end
                 THEN grow(self, num_bytes) ELSE self
        at == grown.left_string_range.end
    IN  IF at + num_bytes > Len(grown.buffer) THEN {Panicked(grown)}
        ELSE {Ok(Buffer(copy_from_slice(grown.buffer, at, characters),
                        Range(grown.left_string_range.start, at + num_bytes),
                        grown.right_string_range))}

\* insert_at_cursor that also grows when the text fills the gap exactly
insert_at_cursor_grows_on_exact_fit(self, characters) ==
    LET num_bytes == Len(characters)
        grown == IF num_bytes >= gap_size(self) THEN grow(self, num_bytes) ELSE self
        at == grown.left_string_range.end
    IN  IF at + num_bytes > Len(grown.buffer) THEN {Panicked(grown)}
        ELSE {Ok(Buffer(copy_from_slice(grown.buffer, at, characters),
                        Range(grown.left_string_range.start, at + num_bytes),
                        grown.right_string_range))}

insert_at_cursor(self, characters) ==
    LET num_bytes == Len(characters)
        grown == IF num_bytes > gap_size(self) THEN grow(self, num_bytes) ELSE self
        at == grown.left_string_range.end
    IN  IF at + num_bytes > Len(grown.buffer) THEN {Panicked(grown)}
        ELSE {Ok(Buffer(copy_from_slice(grown.buffer, at, characters),
                        Range(grown.left_string_range.start, at + num_bytes),
                        grown.right_string_range))}

move_cursor_right_to(self, target_cursor_buffer_index, dbg) ==
    LET source_copy_range ==
            Range(self.right_string_range.start, target_cursor_buffer_index)
        destination_copy_start_index == self.left_string_range.end
    IN  IF copy_within_panics(self.buffer, source_copy_range,
                              destination_copy_start_index)
        THEN Panicked(self)
        ELSE
        LET copied == copy_within(self.buffer, source_copy_range,
                                  destination_copy_start_index)
            num_copied_bytes == RangeLen(source_copy_range)
            num_original_right_bytes == RangeLen(self.right_string_range)
        IN  IF dbg /\ num_copied_bytes > num_original_right_bytes
            THEN Panicked(Buffer(copied, self.left_string_range,
                                 self.right_string_range))
            ELSE Ok(Buffer(copied,
                    Range(self.left_string_range.start,
                          destination_copy_start_index + num_copied_bytes),
                    Range(self.right_string_range.end
                            - num_original_right_bytes + num_copied_bytes,
                          self.right_string_range.end)))

\* move_cursor_left_to that moves the ranges and copies no byte
move_cursor_left_to_without_copy(self, target_cursor_buffer_index, dbg) ==
    LET source_copy_range ==
            Range(target_cursor_buffer_index, self.left_string_range.end)
        destination_copy_start_index ==
            checked_sub(self.right_string_range.start,
                        RangeLen(source_copy_range), dbg)
    IN  IF \/ destination_copy_start_index.panicked
           \/ copy_within_panics(self.buffer, source_copy_range,
                                 destination_copy_start_index.value)
        THEN Panicked(self)
        ELSE Ok(Buffer(self.buffer,
                       Range(self.left_string_range.start,
                             target_cursor_buffer_index),
                       Range(destination_copy_start_index.value,
                             self.right_string_range.end)))

move_cursor_left_to(self, target_cursor_buffer_index, dbg) ==
    LET source_copy_range ==
            Range(target_cursor_buffer_index, self.left_string_range.end)
        destination_copy_start_index ==
            checked_sub(self.right_string_range.start,
                        RangeLen(source_copy_range), dbg)
    IN  IF \/ destination_copy_start_index.panicked
           \/ copy_within_panics(self.buffer, source_copy_range,
                                 destination_copy_start_index.value)
        THEN Panicked(self)
        ELSE Ok(Buffer(copy_within(self.buffer, source_copy_range,
                                   destination_copy_start_index.value),
                       Range(self.left_string_range.start,
                             target_cursor_buffer_index),
                       Range(destination_copy_start_index.value,
                             self.right_string_range.end)))

\* delete_at_cursor that removes one cluster more than asked
delete_at_cursor_one_more(self, number_of_characters, dbg) ==
    LET left == get(self)[1]
        maybe_target_cursor_character_index ==
            nth_back(grapheme_indices(left), number_of_characters)
    IN  IF ~ViewsAreUtf8(self) THEN {Panicked(self)}
        ELSE {Ok(Buffer(self.buffer,
                        Range(self.left_string_range.start,
                              IF maybe_target_cursor_character_index.some
                              THEN maybe_target_cursor_character_index.index
                              ELSE 0),
                        self.right_string_range))}

\* delete_at_cursor that overwrites the removed bytes with zeros
delete_at_cursor_clearing(self, number_of_characters, dbg) ==
    LET left == get(self)[1]
        n == checked_sub(number_of_characters, 1, dbg)
        maybe_target_cursor_character_index ==
            nth_back(grapheme_indices(left), n.value)
        to == IF maybe_target_cursor_character_index.some
              THEN maybe_target_cursor_character_index.index
              ELSE 0
    IN  IF ~ViewsAreUtf8(self) \/ n.panicked THEN {Panicked(self)}
        ELSE {Ok(Buffer([i \in 1..Len(self.buffer) |->
                            IF i > to /\ i <= self.left_string_range.end
                            THEN NUL ELSE self.buffer[i]],
                        Range(self.left_string_range.start, to),
                        self.right_string_range))}

delete_at_cursor(self, number_of_characters, dbg) ==
    LET left == get(self)[1]
        n == checked_sub(number_of_characters, 1, dbg)
        deleted(to) == Ok(Buffer(self.buffer,
                                 Range(self.left_string_range.start, to),
                                 self.right_string_range))
    IN  IF ~ViewsAreUtf8(self)
        THEN Undefined({Panicked(self)} \cup {deleted(to) : to \in 0..Len(left)})
        ELSE IF n.panicked THEN {Panicked(self)}
        ELSE LET maybe_target_cursor_character_index ==
                     nth_back(grapheme_indices(left), n.value)
             IN  {deleted(IF maybe_target_cursor_character_index.some
                          THEN maybe_target_cursor_character_index.index
                          ELSE 0)}

\* delete_all that resets both ranges to 0..0
delete_all_zero_ranges(self) ==
    {Ok(Buffer(self.buffer, Range(0, 0), Range(0, 0)))}

\* delete_all that resets the Left range and forgets the Right range
delete_all_left_only(self) ==
    {Ok(Buffer(self.buffer, Range(0, 0), self.right_string_range))}

\* delete_all that also releases the bytes of the vector
delete_all_clearing_buffer(self) ==
    {Ok(Buffer(<<>>, Range(0, 0), Range(0, 0)))}

delete_all(self) ==
    {Ok(Buffer(self.buffer, Range(0, 0),
               Range(Len(self.buffer), Len(self.buffer))))}

\* move_cursor_right that stops before the number_of_characters'th cluster
move_cursor_right_one_short(self, number_of_characters, dbg) ==
    LET right == get(self)[2]
        n == checked_sub(number_of_characters, 1, dbg)
        maybe_target_cursor_character_index ==
            nth(grapheme_indices(right), n.value)
        target_cursor_buffer_index ==
            IF maybe_target_cursor_character_index.some
            THEN self.right_string_range.start
                    + maybe_target_cursor_character_index.index
            ELSE self.right_string_range.end
    IN  IF ~ViewsAreUtf8(self) \/ n.panicked THEN {Panicked(self)}
        ELSE {move_cursor_right_to(self, target_cursor_buffer_index, dbg)}

\* move_cursor_right that stays where it is when Right has too few clusters
move_cursor_right_no_saturation(self, number_of_characters, dbg) ==
    LET right == get(self)[2]
        maybe_target_cursor_character_index ==
            nth(grapheme_indices(right), number_of_characters)
        target_cursor_buffer_index ==
            IF maybe_target_cursor_character_index.some
            THEN self.right_string_range.start
                    + maybe_target_cursor_character_index.index
            ELSE self.right_string_range.start
    IN  IF ~ViewsAreUtf8(self) THEN {Panicked(self)}
        ELSE {move_cursor_right_to(self, target_cursor_buffer_index, dbg)}

move_cursor_right(self, number_of_characters, dbg) ==
    LET right == get(self)[2]
        maybe_target_cursor_character_index ==
            nth(grapheme_indices(right), number_of_characters)
        target_cursor_buffer_index ==
            IF maybe_target_cursor_character_index.some
            THEN self.right_string_range.start
                    + maybe_target_cursor_character_index.index
            ELSE self.right_string_range.end
    IN  IF ~ViewsAreUtf8(self)
        THEN Undefined({Panicked(self)} \cup
                {move_cursor_right_to(self, self.right_string_range.start + i, dbg) :
                    i \in 0..Len(right)})
        ELSE {move_cursor_right_to(self, target_cursor_buffer_index, dbg)}

\* move_cursor_left that counts code points instead of grapheme clusters
move_cursor_left_by_chars(self, number_of_characters, dbg) ==
    LET left == get(self)[1]
        n == checked_sub(number_of_characters, 1, dbg)
        chars == char_indices(left)
        indices == [k \in 1..Len(chars) |-> chars[k].index]
    IN  IF ~ViewsAreUtf8(self) \/ n.panicked THEN {Panicked(self)}
        ELSE LET maybe_target_cursor_character_index == nth_back(indices, n.value)
             IN  {move_cursor_left_to(self,
                     IF maybe_target_cursor_character_index.some
                     THEN maybe_target_cursor_character_index.index
                     ELSE 0, dbg)}

\* move_cursor_left that goes one cluster too far
move_cursor_left_one_more(self, number_of_characters, dbg) ==
    LET left == get(self)[1]
    IN  IF ~ViewsAreUtf8(self) THEN {Panicked(self)}
        ELSE LET maybe_target_cursor_character_index ==
                     nth_back(grapheme_indices(left), number_of_characters)
             IN  {move_cursor_left_to(self,
                     IF maybe_target_cursor_character_index.some
                     THEN maybe_target_cursor_character_index.index
                     ELSE 0, dbg)}

\* move_cursor_left that stays where it is when Left has too few clusters
move_cursor_left_no_saturation(self, number_of_characters, dbg) ==
    LET left == get(self)[1]
        n == checked_sub(number_of_characters, 1, dbg)
    IN  IF ~ViewsAreUtf8(self) \/ n.panicked THEN {Panicked(self)}
        ELSE LET maybe_target_cursor_character_index ==
                     nth_back(grapheme_indices(left), n.value)
             IN  {move_cursor_left_to(self,
                     IF maybe_target_cursor_character_index.some
                     THEN maybe_target_cursor_character_index.index
                     ELSE self.left_string_range.end, dbg)}

\* move_cursor_left that moves one cluster whatever the count is
move_cursor_left_single_step(self, number_of_characters, dbg) ==
    LET left == get(self)[1]
        n == checked_sub(number_of_characters, 1, dbg)
    IN  IF ~ViewsAreUtf8(self) \/ n.panicked THEN {Panicked(self)}
        ELSE LET maybe_target_cursor_character_index ==
                     nth_back(grapheme_indices(left), 0)
             IN  {move_cursor_left_to(self,
                     IF maybe_target_cursor_character_index.some
                     THEN maybe_target_cursor_character_index.index
                     ELSE 0, dbg)}

move_cursor_left(self, number_of_characters, dbg) ==
    LET left == get(self)[1]
        n == checked_sub(number_of_characters, 1, dbg)
    IN  IF ~ViewsAreUtf8(self)
        THEN Undefined({Panicked(self)} \cup
                {move_cursor_left_to(self, i, dbg) : i \in 0..Len(left)})
        ELSE IF n.panicked THEN {Panicked(self)}
        ELSE LET maybe_target_cursor_character_index ==
                     nth_back(grapheme_indices(left), n.value)
             IN  {move_cursor_left_to(self,
                     IF maybe_target_cursor_character_index.some
                     THEN maybe_target_cursor_character_index.index
                     ELSE 0, dbg)}

\* move_cursor that sends offset 0 to move_cursor_left
move_cursor_zero_goes_left(self, offset, dbg) ==
    IF offset <= 0 THEN move_cursor_left(self, 0 - offset, dbg)
    ELSE move_cursor_right(self, offset, dbg)

move_cursor(self, offset, dbg) ==
    IF offset < 0 THEN move_cursor_left(self, 0 - offset, dbg)
    ELSE IF offset > 0 THEN move_cursor_right(self, offset, dbg)
    ELSE {Ok(self)}

\* move_cursor_to_beginning that stops one byte after the start
move_cursor_to_beginning_from_one(self, dbg) == {move_cursor_left_to(self, 1, dbg)}

move_cursor_to_beginning(self, dbg) == {move_cursor_left_to(self, 0, dbg)}

move_cursor_to_end(self, dbg) ==
    LET target == checked_sub(self.right_string_range.end, 1, dbg)
    IN  IF target.panicked THEN {Panicked(self)}
        ELSE {move_cursor_right_to(self, target.value, dbg)}

\* the indices of the '\n' characters of a string, in order
newline_indices(s) ==
    LET cs == char_indices(s)
        RECURSIVE Pick(_)
        Pick(k) ==
            IF k > Len(cs) THEN <<>>
            ELSE IF cs[k].char = NEWLINE THEN <<cs[k].index>> \o Pick(k + 1)
            ELSE Pick(k + 1)
    IN  Pick(1)

\* what is left of an iterator over the sequence after nth(n) was called
after_nth(seq, n) == SubSeq(seq, n + 2, Len(seq))

\* str::rfind("\n")
rfind_newline(s) ==
    LET at == {i \in 0..(Len(s) - 1) : s[i + 1] = NEWLINE}
    IN  IF at = {} THEN None ELSE Some(CHOOSE i \in at : \A j \in at : j <= i)

\* move_cursor_down that goes to the end of the text from the last line
move_cursor_down_to_end_from_last_line(self, dbg) ==
    LET left == get(self)[1]
        right == get(self)[2]
        all_newlines == newline_indices(right)
        maybe_target_line_begin_index == nth(all_newlines, 0)
        rest_newlines == after_nth(all_newlines, 0)
        target_line_begin_index == maybe_target_line_begin_index.index + 1
        second == nth(rest_newlines, 1)
        target_line ==
            IF second.some
            THEN SubSeq(right, target_line_begin_index + 1, second.index)
            ELSE SubSeq(right, target_line_begin_index + 1, Len(right))
        found == rfind_newline(left)
        current_line ==
            IF found.some
            THEN IF Len(left) > 1
                 THEN SubSeq(left, found.index + 2, Len(left))
                 ELSE <<>>
            ELSE left
        current_column == Len(graphemes(current_line))
        target_indices == grapheme_indices(target_line)
        target_index == nth(target_indices, current_column)
        target_cursor_offset_from_target_line ==
            IF target_index.some THEN target_index.index
            ELSE IF Len(target_indices) > 0
                 THEN target_indices[Len(target_indices)]
                 ELSE 0
    IN  IF ~ViewsAreUtf8(self)
        THEN Undefined({Panicked(self), Ok(self)} \cup
                {move_cursor_right_to(self, self.right_string_range.start + i, dbg) :
                    i \in 0..Len(right)})
        ELSE IF ~maybe_target_line_begin_index.some
        THEN {move_cursor_right_to(self, self.right_string_range.end, dbg)}
        ELSE IF dbg /\ ~(Len(right) > maybe_target_line_begin_index.index + 1)
        THEN {Panicked(self)}
        ELSE {move_cursor_right_to(self,
                 self.right_string_range.start
                    + target_cursor_offset_from_target_line
                    + target_line_begin_index, dbg)}

move_cursor_down(self, dbg) ==
    LET left == get(self)[1]
        right == get(self)[2]
        all_newlines == newline_indices(right)
        maybe_target_line_begin_index == nth(all_newlines, 0)
        rest_newlines == after_nth(all_newlines, 0)
        target_line_begin_index == maybe_target_line_begin_index.index + 1
        second == nth(rest_newlines, 1)
        target_line ==
            IF second.some
            THEN SubSeq(right, target_line_begin_index + 1, second.index)
            ELSE SubSeq(right, target_line_begin_index + 1, Len(right))
        found == rfind_newline(left)
        current_line ==
            IF found.some
            THEN IF Len(left) > 1
                 THEN SubSeq(left, found.index + 2, Len(left))
                 ELSE <<>>
            ELSE left
        current_column == Len(graphemes(current_line))
        target_indices == grapheme_indices(target_line)
        target_index == nth(target_indices, current_column)
        target_cursor_offset_from_target_line ==
            IF target_index.some THEN target_index.index
            ELSE IF Len(target_indices) > 0
                 THEN target_indices[Len(target_indices)]
                 ELSE 0
    IN  IF ~ViewsAreUtf8(self)
        THEN Undefined({Panicked(self), Ok(self)} \cup
                {move_cursor_right_to(self, self.right_string_range.start + i, dbg) :
                    i \in 0..Len(right)})
        ELSE IF ~maybe_target_line_begin_index.some THEN {Ok(self)}
        ELSE IF dbg /\ ~(Len(right) > maybe_target_line_begin_index.index + 1)
        THEN {Panicked(self)}
        ELSE {move_cursor_right_to(self,
                 self.right_string_range.start
                    + target_cursor_offset_from_target_line
                    + target_line_begin_index, dbg)}

----------------------------------------------------------------------------
(* The state machine: one action per public operation. *)

\* file_path names no file: it is "" until set_content gives it a path
NoFile == [kind |-> "none", contents |-> <<>>]

\* a call, its arguments, and the capacity it found
Call(name, n, characters) ==
    [name |-> name, n |-> n, characters |-> characters, capacity |-> Len(buffer)]

Init ==
    \E capacity \in 0..MaxInitCapacity :
        /\ buffer = with_initial_capacity(capacity).buffer
        /\ left_string_range = with_initial_capacity(capacity).left_string_range
        /\ right_string_range = with_initial_capacity(capacity).right_string_range
        /\ debug_assertions \in BOOLEAN
        /\ status = "ok"
        /\ last_call = [name |-> "with_initial_capacity", n |-> capacity,
                        characters |-> <<>>, capacity |-> capacity]
        /\ file = NoFile

\* the call returns or panics with one of the given outcomes; a panic ends
\* the program, and nothing is known of it once its behaviour was undefined
Does(call, outcomes) ==
    /\ status = "ok"
    /\ \E r \in outcomes :
        /\ Len(r.self.buffer) <= MaxCapacity
        /\ buffer' = r.self.buffer
        /\ left_string_range' = r.self.left_string_range
        /\ right_string_range' = r.self.right_string_range
        /\ status' = IF r.undefined THEN "undefined"
                      ELSE IF r.panicked THEN "panic" ELSE "ok"
    /\ last_call' = call
    /\ UNCHANGED <<debug_assertions, file>>

InsertAtCursor ==
    \E characters \in Texts :
        Does(Call("insert_at_cursor", 0, characters),
             insert_at_cursor(Self, characters))

DeleteAtCursor ==
    \E n \in Counts :
        Does(Call("delete_at_cursor", n, <<>>),
             delete_at_cursor(Self, n, debug_assertions))

DeleteAll == Does(Call("delete_all", 0, <<>>), delete_all(Self))

MoveCursor ==
    \E offset \in Offsets :
        Does(Call("move_cursor", offset, <<>>),
             move_cursor(Self, offset, debug_assertions))

MoveCursorLeft ==
    \E n \in Counts :
        Does(Call("move_cursor_left", n, <<>>),
             move_cursor_left(Self, n, debug_assertions))

MoveCursorRight ==
    \E n \in Counts :
        Does(Call("move_cursor_right", n, <<>>),
             move_cursor_right(Self, n, debug_assertions))

MoveCursorDown ==
    Does(Call("move_cursor_down", 0, <<>>),
         move_cursor_down(Self, debug_assertions))

MoveCursorToBeginning ==
    Does(Call("move_cursor_to_beginning", 0, <<>>),
         move_cursor_to_beginning(Self, debug_assertions))

MoveCursorToEnd ==
    Does(Call("move_cursor_to_end", 0, <<>>),
         move_cursor_to_end(Self, debug_assertions))

Next ==
    \/ InsertAtCursor
    \/ DeleteAtCursor
    \/ DeleteAll
    \/ MoveCursor
    \/ MoveCursorLeft
    \/ MoveCursorRight
    \/ MoveCursorDown
    \/ MoveCursorToBeginning
    \/ MoveCursorToEnd

Spec == Init /\ [][Next]_vars

\* a freshly constructed buffer receives one insert_at_cursor
InsertIntoFresh ==
    /\ last_call.name = "with_initial_capacity"
    /\ InsertAtCursor

RoundTripSpec == Init /\ [][InsertIntoFresh]_vars

----------------------------------------------------------------------------
(* The editor around the buffer: FileViewComponent and RootComponent. *)

\* char::to_string(): the UTF-8 encoding of a code point below U+0800
to_string(c) ==
    IF c < 128 THEN <<c>> ELSE <<192 + (c \div 64), 128 + (c % 64)>>

\* [String]::join("\n")
RECURSIVE join(_)
join(strings) ==
    IF strings = <<>> THEN <<>>
    ELSE IF Len(strings) = 1 THEN Head(strings)
    ELSE Head(strings) \o <<NEWLINE>> \o join(Tail(strings))

\* "<binary file>" and "./"
BINARY_FILE_TEXT == <<60, 98, 105, 110, 97, 114, 121, 32, 102, 105, 108, 101, 62>>
DOT_SLASH == <<46, 47>>

\* enum FileViewContent, without the paths
TextFile(content) ==
    [content |-> content, variant |-> "TextFile", children |-> <<>>]

BinaryFile == [content |-> <<>>, variant |-> "BinaryFile", children |-> <<>>]

Folder(children) ==
    [content |-> <<>>, variant |-> "Folder", children |-> children]

\* what the match in set_content assigns to self.content
content_of(content) ==
    CASE content.variant = "TextFile" -> content.content
      [] content.variant = "BinaryFile" -> BINARY_FILE_TEXT
      [] content.variant = "Folder" ->
            join([k \in 1..Len(content.children) |->
                     DOT_SLASH \o content.children[k]])

\* the call has returned: the statement after it is executed
Returned(r) == ~r.panicked /\ ~r.undefined

\* set_content that does not empty the buffer first
set_content_without_delete_all(self, content, dbg) ==
    LET inserted == insert_at_cursor(self, content_of(content))
    IN  UNION {IF Returned(r) THEN move_cursor_to_beginning(r.self, dbg) ELSE {r} :
                  r \in inserted}

\* FileViewComponent::set_content, as far as the buffer goes
set_content(self, content, dbg) ==
    LET deleted == delete_all(self)
        inserted ==
            UNION {IF Returned(r)
                   THEN insert_at_cursor(r.self, content_of(content)) ELSE {r} :
                      r \in deleted}
    IN  UNION {IF Returned(r) THEN move_cursor_to_beginning(r.self, dbg) ELSE {r} :
                  r \in inserted}

\* Write::write on a file opened for writing, neither truncated nor in append
\* mode: the bytes replace what the file holds from the position on. A write
\* that fails or stops short is not modelled.
write(contents, position, bytes) ==
    LET end == IF Len(contents) > position + Len(bytes)
               THEN Len(contents) ELSE position + Len(bytes)
    IN  [i \in 1..end |->
            IF i > position /\ i <= position + Len(bytes)
            THEN bytes[i - position] ELSE contents[i]]

\* RootComponent::save_file: the file at file_path after it
save_file(self, entry) ==
    LET left == get(self)[1]
        right == get(self)[2]
        after_left == write(entry.contents, 0, left)
        after_right == write(after_left, Len(left), right)
        saved == [panicked |-> FALSE, undefined |-> FALSE,
                  file |-> [entry EXCEPT !.contents = after_right]]
        failed == [panicked |-> TRUE, undefined |-> FALSE, file |-> entry]
    IN  IF ~ViewsAreUtf8(self)
        THEN {[r EXCEPT !.undefined = TRUE] : r \in {saved, failed}}
        ELSE IF entry.kind # "file" THEN {failed}
        ELSE {saved}

\* the files a preview reads and the names of the entries of a folder
FileTexts == {t \in Texts : Len(t) <= MaxFileLen}

\* the characters typed: a letter and a combining mark
TypedChars == {LETTER, MARK_CP}

ChildrenLists ==
    {[k \in 1..n |-> <<LETTER>>] : n \in 0..MaxChildren}

\* set_content(content) with the path of the entry shown
SetContent(content, entry) ==
    /\ status = "ok"
    /\ \E r \in set_content(Self, content, debug_assertions) :
        /\ Len(r.self.buffer) <= MaxContentCapacity
        /\ buffer' = r.self.buffer
        /\ left_string_range' = r.self.left_string_range
        /\ right_string_range' = r.self.right_string_range
        /\ status' = IF r.undefined THEN "undefined"
                      ELSE IF r.panicked THEN "panic" ELSE "ok"
    /\ last_call' = [name |-> "set_content", n |-> 0, characters |-> <<>>,
                     capacity |-> Len(buffer), content |-> content,
                     previous |-> get(Self)]
    /\ file' = entry
    /\ UNCHANGED debug_assertions

\* RootComponent::show_file_preview: read_to_string returns the text of the
\* file, or fails on a file that is not UTF-8
ShowFilePreview ==
    \/ \E content \in FileTexts :
          SetContent(TextFile(content), [kind |-> "file", contents |-> content])
    \/ SetContent(BinaryFile, [kind |-> "file", contents |-> <<MARK_CONT>>])

ShowFolderPreview ==
    \E children \in ChildrenLists :
        SetContent(Folder(children), [kind |-> "folder", contents |-> <<>>])

\* FileViewComponent::dispatch_event on the keys that reach the buffer
KeyLeft ==
    Does(Call("move_cursor_left", 1, <<>>),
         move_cursor_left(Self, 1, debug_assertions))

KeyRight ==
    Does(Call("move_cursor_right", 1, <<>>),
         move_cursor_right(Self, 1, debug_assertions))

KeyChar ==
    \E c \in TypedChars :
        Does(Call("insert_at_cursor", 0, to_string(c)),
             insert_at_cursor(Self, to_string(c)))

KeyBackspace ==
    Does(Call("delete_at_cursor", 1, <<>>),
         delete_at_cursor(Self, 1, debug_assertions))

\* Ctrl-s: Event::FileSaved, RootComponent::save_file
SaveFile ==
    /\ status = "ok"
    /\ \E r \in save_file(Self, file) :
        /\ file' = r.file
        /\ status' = IF r.undefined THEN "undefined"
                      ELSE IF r.panicked THEN "panic" ELSE "ok"
    /\ last_call' = Call("save_file", 0, <<>>)
    /\ UNCHANGED <<buffer, left_string_range, right_string_range,
                   debug_assertions>>

EditorNext ==
    \/ ShowFilePreview
    \/ ShowFolderPreview
    \/ KeyLeft
    \/ KeyRight
    \/ KeyChar
    \/ KeyBackspace
    \/ SaveFile

\* the editor starts with the buffer of FileViewComponent::new; the small
\* capacities of Init stand for DEFAULT_INITIAL_CAPACITY
EditorSpec == Init /\ [][EditorNext]_vars

----------------------------------------------------------------------------
(* The views and the vocabulary of the properties. *)

Left == get(Self)[1]
Right == get(Self)[2]
Capacity == Len(buffer)

\* the concatenation of a sequence of strings
RECURSIVE Flatten(_)
Flatten(ss) == IF ss = <<>> THEN <<>> ELSE Head(ss) \o Flatten(Tail(ss))

\* the number of grapheme clusters of a valid string
NumClusters(s) == Len(graphemes(s))

\* the first k and the last k grapheme clusters of a valid string, as text
FirstClusters(s, k) == Flatten(SubSeq(graphemes(s), 1, k))
LastClusters(s, k) ==
    Flatten(SubSeq(graphemes(s), NumClusters(s) - k + 1, NumClusters(s)))

CursorOperations ==
    {"move_cursor", "move_cursor_left", "move_cursor_right",
     "move_cursor_to_beginning", "move_cursor_to_end", "move_cursor_down"}

\* the next state is the one a call of move_cursor_left(n) or move_cursor(-n)
\* produces, n >= 1
MovedLeftBy(n) ==
    /\ n >= 1
    /\ \/ last_call'.name = "move_cursor_left" /\ last_call'.n = n
       \/ last_call'.name = "move_cursor" /\ last_call'.n = 0 - n

\* the same for move_cursor_right(n) and move_cursor(n)
MovedRightBy(n) ==
    /\ n >= 1
    /\ \/ last_call'.name = "move_cursor_right" /\ last_call'.n = n
       \/ last_call'.name = "move_cursor" /\ last_call'.n = n

----------------------------------------------------------------------------
(* Properties. *)

\* C1: after construction and after every call, left starts at 0, right ends
\* at the capacity and 0 <= left.end <= right.start <= capacity, so the gap
\* size is never negative.
RangesWellFormed ==
    status # "undefined" =>
        /\ left_string_range.start = 0
        /\ right_string_range.end = Capacity
        /\ 0 <= left_string_range.end
        /\ left_string_range.end <= right_string_range.start
        /\ right_string_range.start <= Capacity

\* a leftward move has returned with text on both sides and no gap left
RangesWitness ==
    /\ status = "ok"
    /\ last_call.name = "move_cursor_left"
    /\ Left # <<>>
    /\ Right # <<>>
    /\ gap_size(Self) = 0
    /\ Capacity > 0

\* C2: a cursor operation leaves the concatenation Left ++ Right as it was;
\* only insert_at_cursor, delete_at_cursor and delete_all change it.
CursorOperationsKeepContent ==
    [][(last_call'.name \in CursorOperations /\ status' # "undefined")
          => Left' \o Right' = Left \o Right]_vars

\* move_cursor_to_beginning has carried three bytes, one of them part of a
\* two-byte character, across a gap shorter than that
KeepContentWitness ==
    /\ status = "ok"
    /\ last_call.name = "move_cursor_to_beginning"
    /\ Len(Right) = 3
    /\ gap_size(Self) = 1
    /\ \E i \in 1..3 : Right[i] = MARK_LEAD

\* C3: insert_at_cursor(t) from (L, R) gives (L ++ t, R), growth or not.
InsertAppendsToLeft ==
    [][last_call'.name = "insert_at_cursor"
          => /\ status' = "ok"
             /\ Left' = Left \o last_call'.characters
             /\ Right' = Right]_vars

\* an insert that had to grow the buffer, with text on both sides of it
InsertWitness ==
    /\ status = "ok"
    /\ last_call.name = "insert_at_cursor"
    /\ Capacity > last_call.capacity
    /\ Right # <<>>
    /\ last_call.characters # <<>>
    /\ Len(Left) > Len(last_call.characters)

\* C4: inserting s into a freshly constructed buffer of any capacity gives
\* (s, "").  Checked under RoundTripSpec.
RoundTrip ==
    last_call.name = "insert_at_cursor"
        => /\ status = "ok"
           /\ get(Self) = <<last_call.characters, <<>>>>

\* a text longer than the non-zero capacity the buffer was constructed with
RoundTripWitness ==
    /\ last_call.name = "insert_at_cursor"
    /\ last_call.capacity >= 1
    /\ Len(last_call.characters) > last_call.capacity
    /\ \E i \in 1..Len(last_call.characters) : last_call.characters[i] = MARK_LEAD

\* C5: every public operation returns, whatever its argument; none panics.
NoCallPanics == status # "panic"

\* C6: left.end and right.start are always on code-point boundaries: Left
\* and Right are each valid UTF-8.
CursorOnCodePointBoundary == ValidUtf8(Left) /\ ValidUtf8(Right)

\* C7: move_cursor(-1) and move_cursor(1) carry exactly one whole grapheme
\* cluster to the other side: the clusters of the side the cursor left are
\* those that remain there plus the carried text as one cluster.
OneStepMovesOneCluster ==
    [][(last_call'.name = "move_cursor" /\ ViewsAreUtf8(Self))
          => /\ (last_call'.n = 0 - 1 /\ Left # <<>>)
                  => LET moved == SubSeq(Left, Len(Left') + 1, Len(Left))
                     IN  /\ status' = "ok"
                         /\ ValidUtf8(Left')
                         /\ graphemes(Left) = Append(graphemes(Left'), moved)
                         /\ Right' = moved \o Right
             /\ (last_call'.n = 1 /\ Right # <<>>)
                  => LET moved == SubSeq(Right, 1, Len(Right) - Len(Right'))
                     IN  /\ status' = "ok"
                         /\ ValidUtf8(Right')
                         /\ graphemes(Right) = <<moved>> \o graphemes(Right')
                         /\ Left' = Left \o moved]_vars

\* move_cursor(-1) has carried a letter with its combining mark, three bytes
\* and two code points, to the front of Right
OneStepWitness ==
    /\ status = "ok"
    /\ last_call.name = "move_cursor"
    /\ last_call.n = 0 - 1
    /\ Left # <<>>
    /\ Len(Right) = 3
    /\ Right = <<LETTER, MARK_LEAD, MARK_CONT>>

\* C8: when Left has at least n >= 1 clusters, move_cursor_left(n) and
\* move_cursor(-n) give (L', M ++ R) with L = L' ++ M and M the last n
\* clusters of L.
MoveLeftMovesLastClusters ==
    [][\A n \in 1..MaxCount :
          (MovedLeftBy(n) /\ ViewsAreUtf8(Self) /\ NumClusters(Left) >= n)
             => /\ status' = "ok"
                /\ Left' = FirstClusters(Left, NumClusters(Left) - n)
                /\ Right' = LastClusters(Left, n) \o Right]_vars

\* move_cursor_left(2) has stopped short of the start after carrying two
\* clusters of three bytes
MoveLeftWitness ==
    /\ status = "ok"
    /\ last_call.name = "move_cursor_left"
    /\ last_call.n = 2
    /\ Left # <<>>
    /\ ViewsAreUtf8(Self)
    /\ Len(Right) = 3
    /\ NumClusters(Right) = 2

\* C9: when Right has at least n >= 1 clusters, move_cursor_right(n) and
\* move_cursor(n) give (L ++ M, R') with R = M ++ R' and M the first n
\* clusters of R.
MoveRightMovesFirstClusters ==
    [][\A n \in 1..MaxCount :
          (MovedRightBy(n) /\ ViewsAreUtf8(Self) /\ NumClusters(Right) >= n)
             => /\ status' = "ok"
                /\ Left' = Left \o FirstClusters(Right, n)
                /\ Right' = LastClusters(Right, NumClusters(Right) - n)]_vars

\* move_cursor_right(2) has stopped short of the end after carrying two
\* clusters of three bytes into an empty Left
MoveRightWitness ==
    /\ status = "ok"
    /\ last_call.name = "move_cursor_right"
    /\ last_call.n = 2
    /\ Right # <<>>
    /\ ViewsAreUtf8(Self)
    /\ Len(Left) = 3
    /\ NumClusters(Left) = 2

\* C10: when n exceeds the number of clusters of Left, move_cursor_left(n)
\* and move_cursor(-n) give ("", L ++ R).
MoveLeftSaturates ==
    [][\A n \in 1..MaxCount :
          (MovedLeftBy(n) /\ ViewsAreUtf8(Self) /\ n > NumClusters(Left))
             => /\ status' = "ok"
                /\ Left' = <<>>
                /\ Right' = Left \o Right]_vars

\* move_cursor(-3) has returned at the start of a text of two clusters
MoveLeftSaturatesWitness ==
    /\ status = "ok"
    /\ last_call.name = "move_cursor"
    /\ last_call.n = 0 - 3
    /\ Left = <<>>
    /\ ViewsAreUtf8(Self)
    /\ Len(Right) = 3
    /\ NumClusters(Right) = 2

\* C11: when n >= 1 is at least the number of clusters of Right (Right may
\* be empty), move_cursor_right(n) and move_cursor(n) return with
\* (L ++ R, "").
MoveRightSaturates ==
    [][\A n \in 1..MaxCount :
          (MovedRightBy(n) /\ ViewsAreUtf8(Self) /\ n >= NumClusters(Right))
             => /\ status' = "ok"
                /\ Left' = Left \o Right
                /\ Right' = <<>>]_vars

\* move_cursor_right(3) has returned at the end of a text of two clusters
MoveRightSaturatesWitness ==
    /\ status = "ok"
    /\ last_call.name = "move_cursor_right"
    /\ last_call.n = 3
    /\ Right = <<>>
    /\ ViewsAreUtf8(Self)
    /\ Len(Left) = 3
    /\ NumClusters(Left) = 2

\* C12: move_cursor(0) changes nothing: not get(), not the ranges, not a
\* byte of the vector.
MoveCursorZeroIsNoOp ==
    [][(last_call'.name = "move_cursor" /\ last_call'.n = 0)
          => /\ status' = "ok"
             /\ buffer' = buffer
             /\ left_string_range' = left_string_range
             /\ right_string_range' = right_string_range
             /\ get(Self)' = get(Self)]_vars

\* move_cursor(0) has returned with text on both sides of the cursor
MoveCursorZeroWitness ==
    /\ status = "ok"
    /\ last_call.name = "move_cursor"
    /\ last_call.n = 0
    /\ Left # <<>>
    /\ Right # <<>>

\* C13: move_cursor_to_end() from (L, R) gives (L ++ R, ""), also when Right
\* is empty or ends in a multi-byte character.
MoveToEndReachesEnd ==
    [][last_call'.name = "move_cursor_to_end"
          => /\ status' = "ok"
             /\ Left' = Left \o Right
             /\ Right' = <<>>]_vars

\* C14: move_cursor_to_beginning() from (L, R) gives ("", L ++ R).
MoveToBeginningReachesStart ==
    [][last_call'.name = "move_cursor_to_beginning"
          => /\ status' = "ok"
             /\ Left' = <<>>
             /\ Right' = Left \o Right]_vars

\* move_cursor_to_beginning has returned in front of two lines of text
MoveToBeginningWitness ==
    /\ status = "ok"
    /\ last_call.name = "move_cursor_to_beginning"
    /\ Left = <<>>
    /\ Len(Right) >= 3
    /\ Right[2] = NEWLINE

\* C15: delete_at_cursor(n), n >= 1, from (L, R) returns with (L', R), L'
\* being L without its last n clusters, or "" when L has fewer than n.
DeleteRemovesLastClusters ==
    [][\A n \in 1..MaxCount :
          (/\ last_call'.name = "delete_at_cursor"
           /\ last_call'.n = n
           /\ ViewsAreUtf8(Self))
             => /\ status' = "ok"
                /\ Left' = IF NumClusters(Left) >= n
                           THEN FirstClusters(Left, NumClusters(Left) - n)
                           ELSE <<>>
                /\ Right' = Right]_vars

\* delete_at_cursor(2) has removed two clusters next to the cursor and left
\* text on both sides
DeleteWitness ==
    /\ status = "ok"
    /\ last_call.name = "delete_at_cursor"
    /\ last_call.n = 2
    /\ Left # <<>>
    /\ Right # <<>>
    /\ gap_size(Self) >= 2

\* C16: delete_at_cursor changes left.end only: the capacity, the Right
\* range and every byte of the vector stay as they were.
DeleteChangesOnlyLeftEnd ==
    [][(last_call'.name = "delete_at_cursor" /\ status' # "undefined")
          => /\ buffer' = buffer
             /\ Capacity' = Capacity
             /\ right_string_range' = right_string_range
             /\ left_string_range'.start = left_string_range.start]_vars

\* delete_at_cursor(1) has removed a combining mark whose bytes are still
\* in the gap
DeleteFrameWitness ==
    /\ status = "ok"
    /\ last_call.name = "delete_at_cursor"
    /\ last_call.n = 1
    /\ gap_size(Self) >= 2
    /\ buffer[left_string_range.end + 1] = MARK_LEAD
    /\ buffer[left_string_range.end + 2] = MARK_CONT

\* C17: delete_all() gives ("", "") with left = [0,0) and right = [C,C), C
\* the capacity before the call.
DeleteAllEmptiesAndKeepsCapacity ==
    [][last_call'.name = "delete_all"
          => /\ status' = "ok"
             /\ get(Self)' = <<<<>>, <<>>>>
             /\ left_string_range' = Range(0, 0)
             /\ right_string_range' = Range(Capacity, Capacity)
             /\ Capacity' = Capacity]_vars

\* delete_all has emptied a buffer whose vector still holds old text at
\* both ends
DeleteAllWitness ==
    /\ status = "ok"
    /\ last_call.name = "delete_all"
    /\ Capacity >= 3
    /\ buffer[1] = LETTER
    /\ buffer[Capacity] = LETTER

IsPowerOfTwo(p) == \E k \in 0..p : 2 ^ k = p

CapacityNeverDecreases == [][Capacity' >= Capacity]_vars

\* delete_all has returned on a buffer that had grown beyond every initial
\* capacity
CapacityWitness ==
    /\ status = "ok"
    /\ last_call.name = "delete_all"
    /\ Capacity > MaxInitCapacity

\* C20: grow keeps the visible text: for (L, R) before it, get() after it is
\* still (L, R), left.end is unchanged and Right is the last len(R) bytes of
\* the new vector; the insert then goes on from that buffer.
GrowKeepsViews ==
    [][(/\ last_call'.name = "insert_at_cursor"
        /\ Len(last_call'.characters) > gap_size(Self))
          => LET grown == grow(Self, Len(last_call'.characters))
             IN  /\ get(grown) = <<Left, Right>>
                 /\ grown.left_string_range = left_string_range
                 /\ grown.right_string_range =
                        Range(Len(grown.buffer) - Len(Right), Len(grown.buffer))
                 /\ Capacity' = Len(grown.buffer)
                 /\ right_string_range' = grown.right_string_range]_vars

\* an insert has grown a buffer whose Right string, a two-byte character,
\* had to be carried to the end of the new vector
GrowKeepsViewsWitness ==
    /\ status = "ok"
    /\ last_call.name = "insert_at_cursor"
    /\ Capacity > last_call.capacity
    /\ last_call.capacity >= 2
    /\ Right = <<MARK_LEAD, MARK_CONT>>

\* C21: when insert_at_cursor copies the text the gap, grown when needed, is
\* at least as long as the text: the copy writes only bytes of the gap, no byte
\* of Right and none past the end of the vector.
InsertWritesOnlyGap ==
    [][last_call'.name = "insert_at_cursor"
          => LET num_bytes == Len(last_call'.characters)
                 grown == IF num_bytes > gap_size(Self)
                          THEN grow(Self, num_bytes) ELSE Self
                 written == (left_string_range.end + 1)
                                ..(left_string_range.end + num_bytes)
             IN  /\ gap_size(grown) >= num_bytes
                 /\ status' = "ok"
                 /\ Capacity' = Len(grown.buffer)
                 /\ right_string_range' = grown.right_string_range
                 /\ left_string_range'.end = left_string_range.end + num_bytes
                 /\ left_string_range'.end <= right_string_range'.start
                 /\ right_string_range'.end <= Capacity'
                 /\ \A i \in (1..Capacity') \ written : buffer'[i] = grown.buffer[i]
                 /\ Right' = Right]_vars

\* an insert of two bytes has grown the vector in front of a Right string and
\* filled the new gap to its last byte
InsertWritesOnlyGapWitness ==
    /\ status = "ok"
    /\ last_call.name = "insert_at_cursor"
    /\ Len(last_call.characters) = 2
    /\ Capacity > last_call.capacity
    /\ gap_size(Self) = 0
    /\ Len(Right) = 1

\* C23: a buffer made by new() or with_initial_capacity(c) shows ("", ""),
\* its Left range is [0, 0) and its Right range [c, c).
FreshBufferIsEmpty ==
    /\ get(new) = << <<>>, <<>> >>
    /\ new.left_string_range = Range(0, 0)
    /\ new.right_string_range =
            Range(DEFAULT_INITIAL_CAPACITY, DEFAULT_INITIAL_CAPACITY)
    /\ Len(new.buffer) = DEFAULT_INITIAL_CAPACITY
    /\ last_call.name = "with_initial_capacity"
          => /\ status = "ok"
             /\ get(Self) = << <<>>, <<>> >>
             /\ left_string_range = Range(0, 0)
             /\ right_string_range = Range(last_call.n, last_call.n)
             /\ Capacity = last_call.n

\* the buffer of the largest initial capacity, before any call
FreshBufferWitness ==
    /\ last_call.name = "with_initial_capacity"
    /\ last_call.n = MaxInitCapacity
    /\ gap_size(Self) = MaxInitCapacity

\* C25: move_cursor_down with no '\n' in Right changes nothing: the ranges,
\* the vector and get() are as before.
MoveDownWithoutNewlineIsNoOp ==
    [][(/\ last_call'.name = "move_cursor_down"
        /\ ViewsAreUtf8(Self)
        /\ \A i \in 1..Len(Right) : Right[i] # NEWLINE)
          => /\ status' = "ok"
             /\ buffer' = buffer
             /\ left_string_range' = left_string_range
             /\ right_string_range' = right_string_range
             /\ Left' = Left
             /\ Right' = Right]_vars

\* move_cursor_down has returned inside a text of one line, with text on both
\* sides of the cursor
MoveDownWithoutNewlineWitness ==
    /\ status = "ok"
    /\ last_call.name = "move_cursor_down"
    /\ ViewsAreUtf8(Self)
    /\ Left # <<>>
    /\ Right # <<>>
    /\ \A i \in 1..Len(Left \o Right) : (Left \o Right)[i] # NEWLINE

\* C27: a move_cursor_left or move_cursor_right whose span is longer than the
\* gap, so that source and destination of the copy overlap (a gap of 0
\* included), puts the span byte for byte on the other side and leaves
\* Left ++ Right as it was.
OverlappingMoveIsExact ==
    [][(/\ last_call'.name \in {"move_cursor", "move_cursor_left", "move_cursor_right"}
        /\ ViewsAreUtf8(Self)
        /\ status' = "ok"
        /\ \/ Len(Left) - Len(Left') > gap_size(Self)
           \/ Len(Left') - Len(Left) > gap_size(Self))
          => /\ Left' \o Right' = Left \o Right
             /\ Len(Left') < Len(Left)
                   => /\ Left' = SubSeq(Left, 1, Len(Left'))
                      /\ Right' = SubSeq(Left, Len(Left') + 1, Len(Left)) \o Right
             /\ Len(Left') > Len(Left)
                   => /\ Left' = Left \o SubSeq(Right, 1, Len(Left') - Len(Left))
                      /\ Right' = SubSeq(Right, Len(Left') - Len(Left) + 1,
                                         Len(Right))]_vars

\* move_cursor_right(2) has moved two clusters, at least two bytes, over a gap
\* of one byte and stopped before the end of Right
OverlappingMoveWitness ==
    /\ status = "ok"
    /\ last_call.name = "move_cursor_right"
    /\ last_call.n = 2
    /\ ViewsAreUtf8(Self)
    /\ NumClusters(Left) = 2
    /\ Right # <<>>
    /\ gap_size(Self) = 1

\* C29: the capacity changes only in an insert_at_cursor whose text is longer
\* than the gap; an insert that fits (exactly, too), delete_at_cursor,
\* delete_all and the cursor operations leave it as it was.
CapacityChangesOnlyInGrowingInsert ==
    [][Capacity' # Capacity
          => /\ last_call'.name = "insert_at_cursor"
             /\ Len(last_call'.characters) > gap_size(Self)]_vars

\* an insert into an empty Left has filled the gap exactly and the capacity
\* is the one it found
ExactFitWitness ==
    /\ status = "ok"
    /\ last_call.name = "insert_at_cursor"
    /\ Len(last_call.characters) >= 2
    /\ Left = last_call.characters
    /\ gap_size(Self) = 0
    /\ Capacity = last_call.capacity

\* the lines of a text around the cursor
HasNewline(s) == \E i \in 1..Len(s) : s[i] = NEWLINE

CountNewlines(s) == Cardinality({i \in 1..Len(s) : s[i] = NEWLINE})

\* the index, from 0, of the first '\n' of a string that has one
FirstNewline(s) ==
    CHOOSE i \in 0..(Len(s) - 1) :
        /\ s[i + 1] = NEWLINE
        /\ \A j \in 0..(i - 1) : s[j + 1] # NEWLINE

\* what follows the last '\n' of a string, the whole string when it has none
CurrentLine(s) ==
    IF HasNewline(s)
    THEN LET last == CHOOSE i \in 1..Len(s) :
                        /\ s[i] = NEWLINE
                        /\ \A j \in (i + 1)..Len(s) : s[j] # NEWLINE
         IN  SubSeq(s, last + 1, Len(s))
    ELSE s

\* what lies between the first '\n' of a string and its second, or its end
NextLine(s) ==
    LET rest == SubSeq(s, FirstNewline(s) + 2, Len(s))
    IN  IF HasNewline(rest) THEN SubSeq(rest, 1, FirstNewline(rest)) ELSE rest

\* C22: with a next line in Right, move_cursor_down puts the cursor at column
\* min(k, m) of that line, k the clusters of Left after its last '\n' and m
\* the clusters of the next line: at the end of a next line shorter than k.
MoveDownKeepsColumn ==
    [][(/\ last_call'.name = "move_cursor_down"
        /\ ViewsAreUtf8(Self)
        /\ HasNewline(Right)
        /\ status' = "ok")
          => LET k == NumClusters(CurrentLine(Left))
                 m == NumClusters(NextLine(Right))
                 column == IF k < m THEN k ELSE m
             IN  /\ Left' = Left \o SubSeq(Right, 1, FirstNewline(Right) + 1)
                                 \o FirstClusters(NextLine(Right), column)
                 /\ Left' \o Right' = Left \o Right]_vars

\* C24: after move_cursor_down with a '\n' in Right the cursor is on the line
\* that follows: Left has exactly one '\n' more than before.
MoveDownStaysOnNextLine ==
    [][(/\ last_call'.name = "move_cursor_down"
        /\ ViewsAreUtf8(Self)
        /\ HasNewline(Right)
        /\ status' = "ok")
          => CountNewlines(Left') = CountNewlines(Left) + 1]_vars

\* C26: whenever move_cursor_down is called with a '\n' in Right its assertion
\* right.len() > index of the first '\n' + 1 holds, at the end of a text that
\* ends with '\n' too.
MoveDownAssertionHolds ==
    [][(/\ last_call'.name = "move_cursor_down"
        /\ debug_assertions
        /\ ViewsAreUtf8(Self)
        /\ HasNewline(Right))
          => /\ Len(Right) > FirstNewline(Right) + 1
             /\ status' # "panic"]_vars

\* C28: two moves in one direction add up: move_cursor(-a) then
\* move_cursor(-b) shows the same get() as move_cursor(-(a + b)), and
\* move_cursor(a) then move_cursor(b) the same as move_cursor(a + b), for
\* a, b >= 1, when a step saturates too.
MovesComposeAdditively ==
    [][\A b \in 1..MaxCount :
          (/\ last_call'.name = "move_cursor"
           /\ last_call'.n # 0
           /\ ViewsAreUtf8(Self)
           /\ status' = "ok")
             => LET first == last_call'.n
                    second == IF first < 0 THEN 0 - b ELSE b
                    moved == Buffer(buffer', left_string_range', right_string_range')
                    one_by_one == move_cursor(moved, second, debug_assertions)
                    at_once == move_cursor(Self, first + second, debug_assertions)
                IN  {<<r.panicked, r.undefined, get(r.self)>> : r \in one_by_one}
                        = {<<r.panicked, r.undefined, get(r.self)>> : r \in at_once}]_vars

\* move_cursor(-1) has moved one cluster and left two or more to its left
\* for the move that follows
MovesComposeWitness ==
    /\ status = "ok"
    /\ last_call.name = "move_cursor"
    /\ last_call.n = 0 - 1
    /\ ViewsAreUtf8(Self)
    /\ NumClusters(Left) >= 2
    /\ Right # <<>>

\* the buffer with every byte of its gap replaced by the given one
GapFilled(self, byte) ==
    Buffer([i \in 1..Len(self.buffer) |->
               IF i > self.left_string_range.end /\ i <= self.right_string_range.start
               THEN byte ELSE self.buffer[i]],
           self.left_string_range, self.right_string_range)

\* buffers that differ from the given one in the bytes of the gap only: all
\* of them zero, as resize leaves them, a '\n', or a continuation byte
GapVariants(self) ==
    {GapFilled(self, byte) : byte \in {NUL, NEWLINE, MARK_CONT}} \ {self}

\* the outcomes of a call on a Buffer
Outcomes(call, self, dbg) ==
    CASE call.name = "insert_at_cursor" -> insert_at_cursor(self, call.characters)
      [] call.name = "delete_at_cursor" -> delete_at_cursor(self, call.n, dbg)
      [] call.name = "delete_all" -> delete_all(self)
      [] call.name = "move_cursor" -> move_cursor(self, call.n, dbg)
      [] call.name = "move_cursor_left" -> move_cursor_left(self, call.n, dbg)
      [] call.name = "move_cursor_right" -> move_cursor_right(self, call.n, dbg)
      [] call.name = "move_cursor_down" -> move_cursor_down(self, dbg)
      [] call.name = "move_cursor_to_beginning" -> move_cursor_to_beginning(self, dbg)
      [] call.name = "move_cursor_to_end" -> move_cursor_to_end(self, dbg)

\* C30: the bytes of the gap do not show: a buffer with the same ranges and
\* the same Left and Right but other bytes in its gap ends every call the same
\* way, with the same ranges and the same get().
GapBytesDoNotShow ==
    [][status' # "undefined"
          => \A other \in GapVariants(Self) :
                \A r \in Outcomes(last_call', other, debug_assertions) :
                    /\ ~r.undefined
                    /\ r.panicked = (status' = "panic")
                    /\ ~r.panicked
                          => /\ r.self.left_string_range = left_string_range'
                             /\ r.self.right_string_range = right_string_range'
                             /\ get(r.self) = <<Left', Right'>>]_vars

\* a move to the right has left a byte of the text behind in the gap, between
\* a Left and a Right that are not empty
GapBytesWitness ==
    /\ status = "ok"
    /\ last_call.name = "move_cursor_right"
    /\ Left # <<>>
    /\ Right # <<>>
    /\ gap_size(Self) >= 1
    /\ buffer[left_string_range.end + 1] # NUL

\* the reference model: the text before and the text after the cursor, as two
\* strings
RefInsert(pair, t) == <<pair[1] \o t, pair[2]>>

RefDelete(pair, n) ==
    LET k == IF n < NumClusters(pair[1]) THEN n ELSE NumClusters(pair[1])
    IN  <<FirstClusters(pair[1], NumClusters(pair[1]) - k), pair[2]>>

RefDeleteAll(pair) == << <<>>, <<>> >>

RefMoveLeft(pair, n) ==
    LET k == IF n < NumClusters(pair[1]) THEN n ELSE NumClusters(pair[1])
    IN  <<FirstClusters(pair[1], NumClusters(pair[1]) - k),
          LastClusters(pair[1], k) \o pair[2]>>

RefMoveRight(pair, n) ==
    LET k == IF n < NumClusters(pair[2]) THEN n ELSE NumClusters(pair[2])
    IN  <<pair[1] \o FirstClusters(pair[2], k),
          LastClusters(pair[2], NumClusters(pair[2]) - k)>>

RefToBeginning(pair) == << <<>>, pair[1] \o pair[2] >>

RefStep(call, pair) ==
    CASE call.name = "insert_at_cursor" -> RefInsert(pair, call.characters)
      [] call.name = "delete_at_cursor" -> RefDelete(pair, call.n)
      [] call.name = "delete_all" -> RefDeleteAll(pair)
      [] call.name = "move_cursor_left" -> RefMoveLeft(pair, call.n)
      [] call.name = "move_cursor_right" -> RefMoveRight(pair, call.n)
      [] call.name = "move_cursor_to_beginning" -> RefToBeginning(pair)

\* the calls of the refinement: the counted ones with a count of 1 or more
RefinedCall(call) ==
    \/ call.name \in {"insert_at_cursor", "delete_all", "move_cursor_to_beginning"}
    \/ /\ call.name \in {"delete_at_cursor", "move_cursor_left", "move_cursor_right"}
       /\ call.n >= 1

\* C31: the buffer refines the two-string model: each insert_at_cursor,
\* delete_at_cursor(n >= 1), delete_all, move_cursor_left/right(n >= 1) and
\* move_cursor_to_beginning takes get() to the pair the reference step gives,
\* whatever the capacity is and whether the vector grew or not.
BufferRefinesTwoStrings ==
    [][(RefinedCall(last_call') /\ ViewsAreUtf8(Self))
          => /\ status' = "ok"
             /\ <<Left', Right'>> = RefStep(last_call', <<Left, Right>>)]_vars

\* an insert after text already in Left and before a Right string has grown
\* the vector
RefinementWitness ==
    /\ status = "ok"
    /\ last_call.name = "insert_at_cursor"
    /\ Capacity > last_call.capacity
    /\ last_call.characters # <<>>
    /\ Len(Left) > Len(last_call.characters)
    /\ Right # <<>>
    /\ ViewsAreUtf8(Self)

\* C32: delete_at_cursor(0) removes nothing: it returns and get() is as before.
DeleteZeroIsNoOp ==
    [][(/\ last_call'.name = "delete_at_cursor"
        /\ last_call'.n = 0
        /\ ViewsAreUtf8(Self))
          => /\ status' = "ok"
             /\ Left' = Left
             /\ Right' = Right]_vars

\* C33: move_cursor_left(0) and move_cursor_right(0) behave like
\* move_cursor(0): they return and get() is as before.
MoveZeroIsNoOp ==
    [][(/\ last_call'.name \in {"move_cursor_left", "move_cursor_right"}
        /\ last_call'.n = 0
        /\ ViewsAreUtf8(Self))
          => /\ status' = "ok"
             /\ Left' = Left
             /\ Right' = Right]_vars

\* C34: with Right empty move_cursor_to_end returns and get() is as before.
MoveToEndAtEndIsNoOp ==
    [][(last_call'.name = "move_cursor_to_end" /\ Right = <<>>)
          => /\ status' = "ok"
             /\ Left' = Left
             /\ Right' = Right]_vars

\* C35: insert_at_cursor(t) followed by delete_at_cursor(k), k the number of
\* clusters of t, gives back the get() of before the insert when t does not
\* merge into a cluster with the Left text before it.
InsertThenDeleteRestores ==
    [][LET t == last_call.characters
           before == SubSeq(Left, 1, Len(Left) - Len(t))
       IN  (/\ last_call.name = "insert_at_cursor"
            /\ status = "ok"
            /\ ViewsAreUtf8(Self)
            /\ graphemes(Left) = graphemes(before) \o graphemes(t)
            /\ last_call'.name = "delete_at_cursor"
            /\ last_call'.n = NumClusters(t))
              => /\ status' = "ok"
                 /\ Left' = before
                 /\ Right' = Right]_vars

\* C36: after set_content(c) the buffer shows ("", text of c), whatever it
\* held and wherever its cursor was.
SetContentReplacesText ==
    [][last_call'.name = "set_content"
          => /\ status' = "ok"
             /\ Left' = <<>>
             /\ Right' = content_of(last_call'.content)]_vars

\* set_content has put the names of two folder entries in place of a text
\* that had the cursor inside it
SetContentWitness ==
    /\ status = "ok"
    /\ last_call.name = "set_content"
    /\ last_call.content.variant = "Folder"
    /\ Len(last_call.content.children) = 2
    /\ last_call.previous[1] # <<>>
    /\ last_call.previous[2] # <<>>

\* C37: after a save to an existing file the file holds exactly Left ++ Right,
\* nothing of what it held before, also when the text is shorter than that.
SaveWritesExactlyTheText ==
    [][(/\ last_call'.name = "save_file"
        /\ file.kind = "file"
        /\ ViewsAreUtf8(Self))
          => /\ status' = "ok"
             /\ file'.kind = "file"
             /\ file'.contents = Left \o Right]_vars

====
